---- MODULE Spec2Model ----
(***************************************************************************)
(* Model of Project5.cpp: the DynamicQueue (foreground list, background    *)
(* list, wait map, two counters) and the operations enqueue,               *)
(* simulateSleep and wakeUpProcesses, each run under the queue mutex.      *)
(*                                                                         *)
(* A shared_ptr<Process> is modelled by the id of the Process it points    *)
(* to (ids are unique because no id is enqueued twice), or by Null.        *)
(* The Process objects live in the heap `procs`.  The fields command and   *)
(* promoted are never read by the three operations and are left out.       *)
(***************************************************************************)
EXTENDS Integers, Sequences, FiniteSets, TLC

\* ---------------------------------------------------------------- bounds
NumIds == 2
MaxSeconds == 2

Ids == 0..(NumIds - 1)
SecondsArgs == (0 - 1)..MaxSeconds

\* An empty shared_ptr, as map<int, shared_ptr<Process>>::operator[] inserts.
Null == -1

VARIABLES
    procs,          \* heap: id -> Process object (made by make_shared)
    fgProcesses,    \* list<shared_ptr<Process>>
    bgProcesses,    \* list<shared_ptr<Process>>
    waitQueue,      \* map<int, shared_ptr<Process>>, iterated in key order
    processCount,   \* atomic<int>
    bgCount,        \* atomic<int>
    ub,             \* "none", or how a null dereference ended: "trapped", "returned"
    lastOp,         \* history: the operation that produced this state
    slept,          \* history: id -> the seconds of its last sleep, the ticks since
    pc,             \* thread -> where it stands in main, shellProcess, monitorProcess
    mtx,            \* DynamicQueue::mtx: the thread that holds it, or Free
    processId,      \* shellProcess: int processId
    proc,           \* shellProcess: the Process made in this iteration
    iter,           \* shellProcess: index of `line` in commands
    snap,           \* thread -> what its printQueue call has written so far
    sleepCalls      \* history: the (pid, seconds) of the shell's simulateSleep calls

\* ----------------------------------------------------------- Process
Process(id, isForeground) ==
    [id |-> id, isForeground |-> isForeground, remainingTime |-> 0]

\* ------------------------------------------------------ DynamicQueue
\* The queue (and the heap its pointers refer to) as one value.
DynamicQueue ==
    [procs |-> << >>, fg |-> << >>, bg |-> << >>, wait |-> << >>,
     processCount |-> 0, bgCount |-> 0, ub |-> "none"]

push_back(list, ptr) == Append(list, ptr)

\* Mutant of erase: the element is left in the list.
erase_kept(list, i) == list

erase(list, i) == SubSeq(list, 1, i - 1) \o SubSeq(list, i + 1, Len(list))

\* map::erase(it): the entry with key k is removed.
map_erase(m, k) == [x \in (DOMAIN m) \ {k} |-> m[x]]

\* waitQueue[pid] = ptr: insert or overwrite.
map_assign(m, k, ptr) == [x \in (DOMAIN m) \cup {k} |-> IF x = k THEN ptr ELSE m[x]]

\* waitQueue[pid] read: operator[] inserts an empty shared_ptr for a new key.
map_index(m, k) == IF k \in DOMAIN m THEN m ELSE map_assign(m, k, Null)

Min(S) == CHOOSE x \in S : \A y \in S : x <= y

\* Mutant of enqueue: bgCount++ stands outside the else branch.
enqueue_countsAll(q, process) ==
    LET h == [q EXCEPT !.procs = process.id :> process @@ @] IN
    IF process.isForeground
    THEN [h EXCEPT !.fg = push_back(@, process.id),
                   !.bgCount = @ + 1,
                   !.processCount = @ + 1]
    ELSE [h EXCEPT !.bg = push_back(@, process.id),
                   !.bgCount = @ + 1,
                   !.processCount = @ + 1]

\* Mutant of enqueue: push_front instead of push_back.
enqueue_front(q, process) ==
    LET h == [q EXCEPT !.procs = process.id :> process @@ @] IN
    IF process.isForeground
    THEN [h EXCEPT !.fg = <<process.id>> \o @,
                   !.processCount = @ + 1]
    ELSE [h EXCEPT !.bg = <<process.id>> \o @,
                   !.bgCount = @ + 1,
                   !.processCount = @ + 1]

enqueue(q, process) ==
    LET h == [q EXCEPT !.procs = process.id :> process @@ @] IN
    IF process.isForeground
    THEN [h EXCEPT !.fg = push_back(@, process.id),
                   !.processCount = @ + 1]
    ELSE [h EXCEPT !.bg = push_back(@, process.id),
                   !.bgCount = @ + 1,
                   !.processCount = @ + 1]

\* find_if(list, p->id == pid): the index of the first Process whose id is pid,
\* 0 for end().
find_if(list, pid) ==
    IF \E i \in 1..Len(list) : list[i] = pid
    THEN Min({i \in 1..Len(list) : list[i] = pid})
    ELSE 0

\* Mutant of storeRemainingTime: one less than asked for is stored.
storeRemainingTime_offByOne(q, pid, seconds) ==
    LET m == [q EXCEPT !.wait = map_index(@, pid)]
        ptr == m.wait[pid]
    IN IF ptr = Null
       THEN {[m EXCEPT !.ub = "trapped"], [m EXCEPT !.ub = "returned"]}
       ELSE {[m EXCEPT !.procs[ptr].remainingTime = seconds - 1]}

\* Line 76, outside both branches: waitQueue[pid]->remainingTime = seconds.
\* With a null pointer under the key the store is undefined behaviour: it
\* traps and ends the program, or it goes unnoticed and the call returns, the
\* null entry left in the map.  Nothing is defined about the run after that,
\* so the model follows a run up to this point and no further.
storeRemainingTime(q, pid, seconds) ==
    LET m == [q EXCEPT !.wait = map_index(@, pid)]
        ptr == m.wait[pid]
    IN IF ptr = Null
       THEN {[m EXCEPT !.ub = "trapped"], [m EXCEPT !.ub = "returned"]}
       ELSE {[m EXCEPT !.procs[ptr].remainingTime = seconds]}

\* Mutant of simulateSleep: bgCount is not decremented.
simulateSleep_noCount(q, pid, seconds) ==
    LET i == find_if(q.fg, pid)
        j == find_if(q.bg, pid)
    IN IF i # 0
       THEN storeRemainingTime([q EXCEPT !.wait = map_assign(@, pid, q.fg[i]),
                                         !.fg = erase(@, i)], pid, seconds)
       ELSE IF j # 0
       THEN storeRemainingTime([q EXCEPT !.wait = map_assign(@, pid, q.bg[j]),
                                         !.bg = erase(@, j)], pid, seconds)
       ELSE storeRemainingTime(q, pid, seconds)

\* The set of states simulateSleep can leave behind.
simulateSleep(q, pid, seconds) ==
    LET i == find_if(q.fg, pid)
        j == find_if(q.bg, pid)
    IN IF i # 0
       THEN storeRemainingTime([q EXCEPT !.wait = map_assign(@, pid, q.fg[i]),
                                         !.fg = erase(@, i)], pid, seconds)
       ELSE IF j # 0
       THEN storeRemainingTime([q EXCEPT !.wait = map_assign(@, pid, q.bg[j]),
                                         !.bg = erase(@, j),
                                         !.bgCount = @ - 1], pid, seconds)
       ELSE storeRemainingTime(q, pid, seconds)

\* Mutant of wakeStep: remainingTime-- <= 0, the value before the decrement
\* is tested.
wakeStep_postfix(q, k) ==
    LET ptr == q.wait[k]
        d == [q EXCEPT !.procs[ptr].remainingTime = @ - 1]
    IN IF q.procs[ptr].remainingTime <= 0
       THEN IF d.procs[ptr].isForeground
            THEN [d EXCEPT !.fg = push_back(@, ptr),
                           !.wait = map_erase(@, k)]
            ELSE [d EXCEPT !.bg = push_back(@, ptr),
                           !.bgCount = @ + 1,
                           !.wait = map_erase(@, k)]
       ELSE d

\* Mutant of wakeStep: the test is == 0 instead of <= 0.
wakeStep_eqZero(q, k) ==
    LET ptr == q.wait[k]
        d == [q EXCEPT !.procs[ptr].remainingTime = @ - 1]
    IN IF d.procs[ptr].remainingTime = 0
       THEN IF d.procs[ptr].isForeground
            THEN [d EXCEPT !.fg = push_back(@, ptr),
                           !.wait = map_erase(@, k)]
            ELSE [d EXCEPT !.bg = push_back(@, ptr),
                           !.bgCount = @ + 1,
                           !.wait = map_erase(@, k)]
       ELSE d

\* Mutant of wakeStep: the class is not looked at, every waiter goes to fg.
wakeStep_toFg(q, k) ==
    LET ptr == q.wait[k]
        d == [q EXCEPT !.procs[ptr].remainingTime = @ - 1]
    IN IF d.procs[ptr].remainingTime <= 0
       THEN [d EXCEPT !.fg = push_back(@, ptr),
                      !.wait = map_erase(@, k)]
       ELSE d

\* Mutant of wakeStep: push_front instead of push_back.
wakeStep_front(q, k) ==
    LET ptr == q.wait[k]
        d == [q EXCEPT !.procs[ptr].remainingTime = @ - 1]
    IN IF d.procs[ptr].remainingTime <= 0
       THEN IF d.procs[ptr].isForeground
            THEN [d EXCEPT !.fg = <<ptr>> \o @,
                           !.wait = map_erase(@, k)]
            ELSE [d EXCEPT !.bg = <<ptr>> \o @,
                           !.bgCount = @ + 1,
                           !.wait = map_erase(@, k)]
       ELSE d

\* Lines 82-94, one iteration: the entry under key k is decremented and, at
\* <= 0, leaves the map for the list of its class.
wakeStep(q, k) ==
    LET ptr == q.wait[k]
        d == [q EXCEPT !.procs[ptr].remainingTime = @ - 1]
    IN IF d.procs[ptr].remainingTime <= 0
       THEN IF d.procs[ptr].isForeground
            THEN [d EXCEPT !.fg = push_back(@, ptr),
                           !.wait = map_erase(@, k)]
            ELSE [d EXCEPT !.bg = push_back(@, ptr),
                           !.bgCount = @ + 1,
                           !.wait = map_erase(@, k)]
       ELSE d

\* The loop of wakeUpProcesses over the keys not yet visited, in key order
\* (std::map iterates in ascending key order; erase(it) returns the next).
RECURSIVE wakeLoop(_, _)
wakeLoop(q, keys) ==
    IF keys = {} THEN q
    ELSE LET k == Min(keys) IN wakeLoop(wakeStep(q, k), keys \ {k})

\* Mutant of wakeUpProcesses: the map is walked from its largest key down.
RECURSIVE wakeLoop_descending(_, _)
wakeLoop_descending(q, keys) ==
    IF keys = {} THEN q
    ELSE LET k == CHOOSE x \in keys : \A y \in keys : x >= y
         IN wakeLoop_descending(wakeStep(q, k), keys \ {k})

wakeUpProcesses_descending(q) == wakeLoop_descending(q, DOMAIN q.wait)

\* Mutant of wakeUpProcesses: bgCount++ stands outside the loop.
wakeUpProcesses_countsCall(q) ==
    [wakeLoop(q, DOMAIN q.wait) EXCEPT !.bgCount = @ + 1]

wakeUpProcesses(q) == wakeLoop(q, DOMAIN q.wait)

\* ------------------------------------------------------------- state
agentVars == <<pc, mtx, processId, proc, iter, snap, sleepCalls>>
vars == <<procs, fgProcesses, bgProcesses, waitQueue, processCount, bgCount, ub, lastOp, slept,
          pc, mtx, processId, proc, iter, snap, sleepCalls>>

\* ------------------------------------------------------------ threads
Threads == {"main", "shell", "monitor"}
Agents == {"shell", "monitor"}
Free == "free"

\* vector<string> commands has six entries; ids start at 2; the shell runs
\* with interval 5.
NumCommands == 6
FirstProcessId == 2
ShellInterval == 5

\* Nothing written yet by a printQueue call.
NoSnap == [known |-> {}, header |-> Null, bg |-> << >>, fg |-> << >>, wq |-> << >>]

\* The current state as a queue value, and the assignment of one.
Cur ==
    [procs |-> procs, fg |-> fgProcesses, bg |-> bgProcesses, wait |-> waitQueue,
     processCount |-> processCount, bgCount |-> bgCount, ub |-> ub]

Becomes(q) ==
    /\ procs' = q.procs
    /\ fgProcesses' = q.fg
    /\ bgProcesses' = q.bg
    /\ waitQueue' = q.wait
    /\ processCount' = q.processCount
    /\ bgCount' = q.bgCount
    /\ ub' = q.ub

\* Where simulateSleep(pid) finds pid: "fg", "bg", "wait" or "unknown".
Place(q, pid) ==
    IF find_if(q.fg, pid) # 0 THEN "fg"
    ELSE IF find_if(q.bg, pid) # 0 THEN "bg"
    ELSE IF pid \in DOMAIN q.wait THEN "wait"
    ELSE "unknown"

\* History of the sleeps: kept for a Process while it waits and in the state
\* right after the tick that woke it, dropped by the operation after that.
StillWaiting == [p \in (DOMAIN slept) \cap (DOMAIN waitQueue) |-> slept[p]]

SleptAfterSleep(pid, seconds) ==
    IF Place(Cur, pid) = "unknown" THEN StillWaiting
    ELSE (pid :> [seconds |-> seconds, ticks |-> 0,
                  fromReady |-> Place(Cur, pid) \in {"fg", "bg"}]) @@ StillWaiting

SleptAfterTick ==
    [p \in DOMAIN StillWaiting |-> [StillWaiting[p] EXCEPT !.ticks = @ + 1]]

Init ==
    /\ procs = DynamicQueue.procs
    /\ fgProcesses = DynamicQueue.fg
    /\ bgProcesses = DynamicQueue.bg
    /\ waitQueue = DynamicQueue.wait
    /\ processCount = DynamicQueue.processCount
    /\ bgCount = DynamicQueue.bgCount
    /\ ub = DynamicQueue.ub
    /\ lastOp = [op |-> "init", pid |-> Null, place |-> "none"]
    /\ slept = << >>
    /\ pc = [t \in Threads |-> IF t = "main" THEN "enqueue_shell" ELSE "unstarted"]
    /\ mtx = Free
    /\ processId = FirstProcessId
    /\ proc = Process(0, TRUE)
    /\ iter = 0
    /\ snap = [t \in Agents |-> NoSnap]
    /\ sleepCalls = {}

\* enqueue of a new Process whose id the queue does not hold.
CallEnqueue ==
    /\ ub = "none"
    /\ \E id \in Ids \ DOMAIN procs : \E isForeground \in BOOLEAN :
          /\ Becomes(enqueue(Cur, Process(id, isForeground)))
          /\ lastOp' = [op |-> "enqueue", pid |-> id, place |-> "none"]
          /\ slept' = StillWaiting
          /\ UNCHANGED agentVars

\* simulateSleep with any pid and any seconds.
CallSleep ==
    /\ ub = "none"
    /\ \E pid \in Ids : \E seconds \in SecondsArgs :
          \E q \in simulateSleep(Cur, pid, seconds) :
              /\ Becomes(q)
              /\ lastOp' = [op |-> "sleep", pid |-> pid, place |-> Place(Cur, pid)]
              /\ slept' = SleptAfterSleep(pid, seconds)
              /\ UNCHANGED agentVars

CallTick ==
    /\ ub = "none"
    /\ Becomes(wakeUpProcesses(Cur))
    /\ lastOp' = [op |-> "tick", pid |-> Null, place |-> "none"]
    /\ slept' = SleptAfterTick
    /\ UNCHANGED agentVars

Next == CallEnqueue \/ CallSleep \/ CallTick

Spec == Init /\ [][Next]_vars

\* ------------------------------------------------------- observations
Waiting == DOMAIN waitQueue

\* The Processes the last operation, a tick, took out of the wait map.
JustWoken == (DOMAIN slept) \ Waiting

Pos(list, p) == IF \E i \in 1..Len(list) : list[i] = p
                THEN CHOOSE i \in 1..Len(list) : list[i] = p
                ELSE 0

Native(p) == IF procs[p].isForeground THEN fgProcesses ELSE bgProcesses

IsLast(list, p) == Len(list) > 0 /\ list[Len(list)] = p

Ready == fgProcesses \o bgProcesses

\* ------------------------------------------------------------------ C1
\* C1 (P1, I3): in every state observed between operations,
\* |fg| + |bg| + |wait| = process_count and |bg| = bg_count.
P1_Counts ==
    ub # "trapped" =>
        /\ Len(fgProcesses) + Len(bgProcesses) + Cardinality(Waiting) = processCount
        /\ Len(bgProcesses) = bgCount

\* ------------------------------------------------------------------ C2
\* C2 (B2): sleep on an id that is in neither ready list nor in wait changes
\* nothing (fg, bg, the wait map and its keys, both counters) and ends
\* without an error.
B2_SleepUnknownNoOp ==
    [][(lastOp'.op = "sleep" /\ lastOp'.place = "unknown") =>
          /\ UNCHANGED <<procs, fgProcesses, bgProcesses, waitQueue, processCount, bgCount>>
          /\ ub' = "none"]_vars

\* ------------------------------------------------------------------ C3
\* C3: sleep on a Process that is already in wait leaves it as it was: its
\* remaining_time is not reset, and fg, bg and the counters are unchanged.
SleepWaitingUnchanged ==
    [][(lastOp'.op = "sleep" /\ lastOp'.place = "wait") =>
          UNCHANGED <<procs, fgProcesses, bgProcesses, waitQueue, processCount, bgCount, ub>>]_vars

\* ------------------------------------------------------------------ C4
\* C4 (P3, I1): no id is in two of fg, bg, wait or twice in one of them, and
\* every Process that was enqueued is in exactly one of the three.
P3_Exclusive ==
    /\ \A i, j \in 1..Len(Ready) : i # j => Ready[i] # Ready[j]
    /\ \A i \in 1..Len(Ready) : Ready[i] \notin Waiting
    /\ \A p \in DOMAIN procs :
          \/ Pos(Ready, p) # 0
          \/ p \in Waiting /\ waitQueue[p] = p
    /\ \A i \in 1..Len(Ready) : Ready[i] \in DOMAIN procs

P3_Witness ==
    /\ lastOp.op = "tick"
    /\ JustWoken # {}
    /\ Waiting # {}
    /\ Len(Ready) > 0

\* ------------------------------------------------------------------ C5
\* C5 (P2, I2): every Process in fg is foreground and every Process in bg is
\* background, so a tick returns each expired waiter to the list of its class.
P2_Class ==
    /\ \A i \in 1..Len(fgProcesses) :
          fgProcesses[i] \in DOMAIN procs /\ procs[fgProcesses[i]].isForeground
    /\ \A j \in 1..Len(bgProcesses) :
          bgProcesses[j] \in DOMAIN procs /\ ~procs[bgProcesses[j]].isForeground

P2_Witness ==
    /\ lastOp.op = "tick"
    /\ \E p \in JustWoken : ~procs[p].isForeground /\ Pos(bgProcesses, p) # 0
    /\ \E p \in JustWoken : procs[p].isForeground /\ Pos(fgProcesses, p) # 0

\* ------------------------------------------------------------------ C6
\* C6 (P4) as claimed: for p put to sleep from a ready list with any s >= 0
\* and not slept again, after k < s ticks p is in wait with remaining_time
\* s - k, and after exactly s ticks p is out of wait and the last element of
\* its native list.
P4_Original ==
    \A p \in DOMAIN slept :
        (slept[p].fromReady /\ slept[p].seconds >= 0) =>
            LET s == slept[p].seconds
                k == slept[p].ticks
            IN /\ k < s => (p \in Waiting /\ procs[p].remainingTime = s - k)
               /\ k = s => (p \notin Waiting /\ IsLast(Native(p), p))

\* C6 amended: the wake comes after max(s, 1) ticks (a sleep of 0 or less
\* still waits for one tick), and the woken Process stands behind everything
\* its native list held before that tick: only waiters of its class with a
\* larger id that expired in the same tick stand behind it.
P4_Countdown ==
    \A p \in DOMAIN slept :
        slept[p].fromReady =>
            LET s == slept[p].seconds
                k == slept[p].ticks
                n == IF s >= 1 THEN s ELSE 1
            IN /\ k <= n
               /\ k < n => (p \in Waiting /\ procs[p].remainingTime = s - k)
               /\ k = n =>
                    /\ p \notin Waiting
                    /\ Pos(Native(p), p) # 0
                    /\ \A i \in (Pos(Native(p), p) + 1)..Len(Native(p)) :
                          Native(p)[i] \in JustWoken /\ Native(p)[i] > p

P4_Witness ==
    /\ lastOp.op = "tick"
    /\ \E p \in JustWoken :
          /\ slept[p].fromReady
          /\ slept[p].seconds = MaxSeconds
          /\ slept[p].ticks = MaxSeconds
          /\ Len(Native(p)) >= 2

\* ------------------------------------------------------------------ C7
\* C7 (I4) as claimed: in every state observed between operations every
\* Process in wait has remaining_time > 0.
I4_Positive ==
    ub # "trapped" =>
        \A p \in Waiting : waitQueue[p] # Null => procs[p].remainingTime > 0

\* C7 amended: a Process in wait has remaining_time > 0 unless its last sleep
\* was called with seconds <= 0 and no tick has run since; it then holds
\* exactly that value until the next tick removes it.
I4_PositiveAfterTick ==
    \A p \in Waiting :
        waitQueue[p] # Null =>
            \/ procs[p].remainingTime > 0
            \/ /\ p \in DOMAIN slept
               /\ slept[p].ticks = 0
               /\ slept[p].seconds <= 0
               /\ procs[p].remainingTime = slept[p].seconds

I4_Witness ==
    /\ lastOp.op = "tick"
    /\ \E p \in Waiting : slept[p].ticks >= 1 /\ procs[p].remainingTime > 0
    /\ \E p \in JustWoken : slept[p].seconds <= 0

\* ------------------------------------------------------------------ C8
\* enqueue and wakeUpProcesses each hold the mutex from their first statement
\* to their last, so two concurrent calls run one after the other, in the
\* order in which they took the lock.
EnqueueThenTick(id, isForeground) ==
    wakeUpProcesses(enqueue(Cur, Process(id, isForeground)))

TickThenEnqueue(id, isForeground) ==
    enqueue(wakeUpProcesses(Cur), Process(id, isForeground))

\* The waiters of one class that the next tick wakes, in key order.
RECURSIVE Ascending(_)
Ascending(S) == IF S = {} THEN << >> ELSE <<Min(S)>> \o Ascending(S \ {Min(S)})

Expiring(isForeground) ==
    Ascending({w \in Waiting : /\ procs[w].remainingTime <= 1
                               /\ procs[w].isForeground = isForeground})

\* C8 (B3) as claimed: a concurrent enqueue(p) and tick_wake() leave the same
\* queue state whichever takes the lock first.
B3_SameState ==
    ub = "none" =>
        \A id \in Ids \ DOMAIN procs : \A isForeground \in BOOLEAN :
            EnqueueThenTick(id, isForeground) = TickThenEnqueue(id, isForeground)

\* C8 amended: the two orders agree on the heap, the wait map, both counters
\* and the list of the other class; in the list of p's class p stands before
\* the waiters the tick wakes when enqueue took the lock first and behind
\* them otherwise, so the states are identical exactly when the tick wakes
\* no waiter of p's class.
B3_SameUpToOrder ==
    ub = "none" =>
        \A id \in Ids \ DOMAIN procs : \A isForeground \in BOOLEAN :
            LET a == EnqueueThenTick(id, isForeground)
                b == TickThenEnqueue(id, isForeground)
                old == IF isForeground THEN fgProcesses ELSE bgProcesses
                woken == Expiring(isForeground)
            IN /\ a.procs = b.procs
               /\ a.wait = b.wait
               /\ a.processCount = b.processCount
               /\ a.bgCount = b.bgCount
               /\ a.ub = b.ub
               /\ IF isForeground
                  THEN /\ a.bg = b.bg
                       /\ a.fg = old \o <<id>> \o woken
                       /\ b.fg = old \o woken \o <<id>>
                  ELSE /\ a.fg = b.fg
                       /\ a.bg = old \o <<id>> \o woken
                       /\ b.bg = old \o woken \o <<id>>
               /\ (a = b) <=> (woken = << >>)

B3_Witness ==
    /\ ub = "none"
    /\ lastOp.op = "sleep"
    /\ \E id \in Ids \ DOMAIN procs : \E w \in Waiting :
          /\ procs[w].remainingTime <= 1
          /\ EnqueueThenTick(id, procs[w].isForeground).wait = << >>
          /\ IsLast(IF procs[w].isForeground
                    THEN TickThenEnqueue(id, TRUE).fg
                    ELSE TickThenEnqueue(id, FALSE).bg, id)

\* ------------------------------------------------------------------ C9
KeepsOrder(old, new) ==
    \A i, j \in 1..Len(old) :
        (i < j /\ Pos(new, old[i]) # 0 /\ Pos(new, old[j]) # 0)
            => Pos(new, old[i]) < Pos(new, old[j])

ArrivalsBehind(old, new) ==
    \A x, y \in 1..Len(new) :
        (Pos(old, new[x]) = 0 /\ Pos(old, new[y]) # 0) => y < x

LeavesOnlyToWait(old, new) ==
    \A i \in 1..Len(old) : Pos(new, old[i]) = 0 => old[i] \in DOMAIN waitQueue'

\* C9 (P5): FIFO within a class.  Every operation keeps the relative order
\* of the Processes that stay in a ready list, a Process leaves a ready list
\* only by entering wait, and a Process that enters a list (enqueued, or
\* woken by a tick) stands behind every Process the list already held: so of
\* two Processes of one class that never waited the one enqueued first stays
\* ahead, and a woken Process is at the tail, not at its former place.
P5_Fifo ==
    [][/\ KeepsOrder(fgProcesses, fgProcesses')
       /\ KeepsOrder(bgProcesses, bgProcesses')
       /\ ArrivalsBehind(fgProcesses, fgProcesses')
       /\ ArrivalsBehind(bgProcesses, bgProcesses')
       /\ LeavesOnlyToWait(fgProcesses, fgProcesses')
       /\ LeavesOnlyToWait(bgProcesses, bgProcesses')]_vars

P5_Witness ==
    /\ lastOp.op = "tick"
    /\ \E p \in JustWoken :
          /\ IsLast(Native(p), p)
          /\ Len(Native(p)) >= 2
          /\ Native(p)[Len(Native(p)) - 1] > p

\* ----------------------------------------------------------------- C10
RECURSIVE ticks(_, _)
ticks(q, n) == IF n = 0 THEN q ELSE ticks(wakeUpProcesses(q), n - 1)

\* enqueue(p); sleep(p.id, s); n ticks, from the current state.
RoundTrip(id, isForeground, s, n) ==
    {ticks(r, n) : r \in simulateSleep(enqueue(Cur, Process(id, isForeground)), id, s)}

SameAsEnqueue(r, e, id) ==
    /\ r.fg = e.fg
    /\ r.bg = e.bg
    /\ id \notin DOMAIN r.wait
    /\ r.processCount = e.processCount
    /\ r.bgCount = e.bgCount
    /\ r.ub = e.ub

\* C10 (R1) as claimed: for every p and every s >= 0, enqueue(p);
\* sleep(p.id, s); s ticks leaves the state of enqueue(p) alone: the same fg
\* and bg with p last in its list, p not in wait, the same counters.
R1_RoundTrip ==
    ub = "none" =>
        \A id \in Ids \ DOMAIN procs : \A isForeground \in BOOLEAN :
            \A s \in 0..MaxSeconds :
                \A r \in RoundTrip(id, isForeground, s, s) :
                    SameAsEnqueue(r, enqueue(Cur, Process(id, isForeground)), id)

\* C10 amended: the round trip takes max(s, 1) ticks, and it gives the state
\* of enqueue(p) alone when no other waiter expires within those ticks.
R1_RoundTripQuiet ==
    ub = "none" =>
        \A id \in Ids \ DOMAIN procs : \A isForeground \in BOOLEAN :
            \A s \in SecondsArgs :
                LET n == IF s >= 1 THEN s ELSE 1 IN
                (\A w \in Waiting : procs[w].remainingTime > n) =>
                    \A r \in RoundTrip(id, isForeground, s, n) :
                        /\ SameAsEnqueue(r, enqueue(Cur, Process(id, isForeground)), id)
                        /\ IsLast(IF isForeground THEN r.fg ELSE r.bg, id)

R1_Witness ==
    /\ ub = "none"
    /\ Ids \ DOMAIN procs # {}
    /\ \E w \in Waiting : procs[w].remainingTime = MaxSeconds
    /\ \E id \in Ids \ DOMAIN procs :
          \A r \in RoundTrip(id, FALSE, 1, 1) : IsLast(r.bg, id) /\ r.wait = waitQueue

\* ----------------------------------------------------------------- C14
\* C14 (B1): sleep(p.id, s) with s <= 0 on a Process in a ready list puts p
\* in wait with remaining_time s, and the very next tick takes p out of wait
\* and appends it to its native list.
B1_NextTickReadmits ==
    \A p \in DOMAIN slept :
        (slept[p].fromReady /\ slept[p].seconds <= 0) =>
            \/ /\ slept[p].ticks = 0
               /\ p \in Waiting
               /\ waitQueue[p] = p
               /\ procs[p].remainingTime = slept[p].seconds
               /\ Pos(Ready, p) = 0
            \/ /\ slept[p].ticks = 1
               /\ p \notin Waiting
               /\ Pos(Native(p), p) # 0
               /\ \A i \in (Pos(Native(p), p) + 1)..Len(Native(p)) :
                     Native(p)[i] \in JustWoken

B1_Witness ==
    /\ lastOp.op = "tick"
    /\ \E p \in JustWoken :
          /\ slept[p].fromReady
          /\ slept[p].seconds = 0
          /\ procs[p].remainingTime = 0 - 1
          /\ IsLast(Native(p), p)

\* ----------------------------------------------------------------- C15
\* C15 (R2): a tick on an empty wait map changes nothing.
R2_TickOnEmptyWait ==
    [][(lastOp'.op = "tick" /\ waitQueue = << >>) =>
          UNCHANGED <<procs, fgProcesses, bgProcesses, waitQueue, processCount, bgCount, ub>>]_vars

R2_Witness ==
    /\ lastOp.op = "tick"
    /\ slept = << >>
    /\ waitQueue = << >>
    /\ Len(fgProcesses) > 0
    /\ Len(bgProcesses) > 0

\* ----------------------------------------------------------------- C16
IsPrefix(old, new) == Len(old) <= Len(new) /\ SubSeq(new, 1, Len(old)) = old

\* C16: one tick decrements the remaining_time of every waiter by exactly 1,
\* takes out of wait exactly those that are then <= 0, leaves the others in
\* wait, and neither removes nor reorders what fg and bg held.
TickDecrementsEach ==
    [][lastOp'.op = "tick" =>
          /\ \A p \in DOMAIN waitQueue :
                /\ procs'[p].remainingTime = procs[p].remainingTime - 1
                /\ (p \notin DOMAIN waitQueue') <=> (procs[p].remainingTime - 1 <= 0)
          /\ DOMAIN waitQueue' \subseteq DOMAIN waitQueue
          /\ \A p \in (DOMAIN procs) \ DOMAIN waitQueue : procs'[p] = procs[p]
          /\ IsPrefix(fgProcesses, fgProcesses')
          /\ IsPrefix(bgProcesses, bgProcesses')
          /\ Len(fgProcesses') + Len(bgProcesses') + Cardinality(DOMAIN waitQueue')
                = Len(fgProcesses) + Len(bgProcesses) + Cardinality(DOMAIN waitQueue)]_vars

TickDecrements_Witness ==
    /\ lastOp.op = "tick"
    /\ JustWoken # {}
    /\ \E p \in Waiting :
          /\ slept[p].ticks = 1
          /\ procs[p].remainingTime = slept[p].seconds - 1

\* ----------------------------------------------------------------- C17
\* C17: waiters of one class that expire in the same tick are appended to
\* their native list in ascending id order, whatever the order of their
\* sleeps was.
WokenInIdOrder ==
    \A p, r \in JustWoken :
        (p < r /\ procs[p].isForeground = procs[r].isForeground)
            => /\ Pos(Native(p), p) # 0
               /\ Pos(Native(r), r) # 0
               /\ Pos(Native(p), p) < Pos(Native(r), r)

\* Two waiters of one class woken together; the one with the larger id was
\* put to sleep first (it has seen more ticks).
WokenInIdOrder_Witness ==
    /\ lastOp.op = "tick"
    /\ \E p, r \in JustWoken :
          /\ p < r
          /\ procs[p].isForeground = procs[r].isForeground
          /\ slept[r].ticks > slept[p].ticks

\* ----------------------------------------------------------------- C18
\* C18: enqueue(p) appends p to fg if p is foreground and to bg otherwise,
\* adds 1 to process_count, adds 1 to bg_count iff p is background, and
\* leaves the other list and the wait map unchanged.
EnqueueAppends ==
    [][lastOp'.op = "enqueue" =>
          LET id == lastOp'.pid IN
          /\ id \in DOMAIN procs'
          /\ processCount' = processCount + 1
          /\ waitQueue' = waitQueue
          /\ IF procs'[id].isForeground
             THEN /\ fgProcesses' = Append(fgProcesses, id)
                  /\ bgProcesses' = bgProcesses
                  /\ bgCount' = bgCount
             ELSE /\ bgProcesses' = Append(bgProcesses, id)
                  /\ fgProcesses' = fgProcesses
                  /\ bgCount' = bgCount + 1]_vars

EnqueueAppends_Witness ==
    /\ lastOp.op = "enqueue"
    /\ procs[lastOp.pid].isForeground
    /\ fgProcesses = <<1, 0>>
    /\ bgCount = 0
    /\ processCount = 2

\* ----------------------------------------------------------------- C19
\* C19: only enqueue changes process_count, so it equals the number of
\* enqueue calls completed (one Process object per call); sleep takes 1 from
\* bg_count exactly when it removes the Process from bg.
CountsChangeOnlyWhereSaid ==
    /\ [](processCount = Cardinality(DOMAIN procs))
    /\ [][/\ lastOp'.op \in {"sleep", "tick"} => processCount' = processCount
          /\ lastOp'.op = "sleep" =>
                /\ bgCount' = IF lastOp'.place = "bg" THEN bgCount - 1 ELSE bgCount
                /\ (lastOp'.place = "bg") <=> (Len(bgProcesses') = Len(bgProcesses) - 1)
                /\ (lastOp'.place # "bg") => (bgProcesses' = bgProcesses)]_vars

CountsChange_Witness ==
    /\ lastOp.op = "sleep"
    /\ lastOp.place = "bg"
    /\ bgCount = 1
    /\ processCount = 2
    /\ Len(bgProcesses) = 1

\* ============================================================ agents
\* main, shellProcess and monitorProcess as threads.  A queue operation is a
\* step that takes the mutex (the lock_guard at its first line) and the
\* steps of its body, the last of which gives the mutex back (the
\* lock_guard's destructor at return).  The bodies of enqueue, simulateSleep
\* and wakeUpProcesses touch only what the mutex guards and are one step
\* each; printQueue writes its four sections in four steps.
\* this_thread::sleep_for is a step of its own; no clock is modelled, so
\* the threads interleave in every order.

\* lock_guard<mutex> lock(mtx): blocks until the mutex is free.
lock(t) == mtx = Free /\ mtx' = t

\* Mutant of unlock: the mutex is kept at return.
unlock_leak == mtx' = mtx

\* ~lock_guard.
unlock == mtx' = Free

\* Mutant of printQueue_lock: printQueue without its lock_guard.
printQueue_noLock(t) == mtx' = mtx

printQueue_lock(t) == lock(t)

\* Mutant of shouldSleep: the id before the increment is tested.
shouldSleep_beforeIncrement(id) == (id - 1) % 3 = 0

\* Line 127, with processId already incremented.
shouldSleep(id) == id % 3 = 0

\* Mutant of sleepSeconds: interval instead of interval * 2.
sleepSeconds_single(interval) == interval

\* Line 128: interval * 2.
sleepSeconds(interval) == interval * 2

\* Process::toString, without the "*" of promoted, which is never set.
toString(process) ==
    [id |-> process.id, class |-> IF process.isForeground THEN "F" ELSE "B"]

Labels(q, list) == [i \in 1..Len(list) |-> toString(q.procs[list[i]])]

\* The WQ section: the map's entries in key order, each with remainingTime.
WqSection(q) ==
    LET keys == Ascending(DOMAIN q.wait)
    IN [i \in 1..Len(keys) |->
           [label |-> toString(q.procs[q.wait[keys[i]]]),
            remainingTime |-> q.procs[q.wait[keys[i]]].remainingTime]]

Goto(t, label) == pc' = [pc EXCEPT ![t] = label]

queueVars == <<procs, fgProcesses, bgProcesses, waitQueue, processCount, bgCount, ub>>

\* ---- main
\* dq.enqueue(shellProc); dq.enqueue(monitorProc): no other thread runs yet.
MainEnqueue ==
    /\ pc["main"] \in {"enqueue_shell", "enqueue_monitor"}
    /\ mtx = Free
    /\ IF pc["main"] = "enqueue_shell"
       THEN /\ Becomes(enqueue(Cur, Process(0, TRUE)))
            /\ Goto("main", "enqueue_monitor")
       ELSE /\ Becomes(enqueue(Cur, Process(1, FALSE)))
            /\ Goto("main", "spawn")
    /\ slept' = StillWaiting
    /\ UNCHANGED <<lastOp, mtx, processId, proc, iter, snap, sleepCalls>>

\* thread shellThread(...); thread monitorThread(...).
MainSpawn ==
    /\ pc["main"] = "spawn"
    /\ pc' = [t \in Threads |->
                 IF t = "main" THEN "join" ELSE IF t = "shell" THEN "loop" ELSE "delay"]
    /\ UNCHANGED <<queueVars, lastOp, slept, mtx, processId, proc, iter, snap, sleepCalls>>

\* shellThread.join(); monitorThread.detach(); ...; return 0.  The return
\* from main ends the process and with it the detached monitor thread.
MainJoinAndReturn ==
    /\ pc["main"] = "join"
    /\ pc["shell"] = "done"
    /\ Goto("main", "exited")
    /\ UNCHANGED <<queueVars, lastOp, slept, mtx, processId, proc, iter, snap, sleepCalls>>

Running(t) == pc["main"] = "join" /\ ub = "none"

\* ---- shellProcess
\* Lines 123-125: the next command, or the end of the loop.
ShellLoop ==
    /\ Running("shell")
    /\ pc["shell"] = "loop"
    /\ IF iter < NumCommands
       THEN /\ proc' = Process(processId, processId % 2 = 0)
            /\ processId' = processId + 1
            /\ Goto("shell", "enqueue_lock")
       ELSE /\ Goto("shell", "done")
            /\ UNCHANGED <<proc, processId>>
    /\ UNCHANGED <<queueVars, lastOp, slept, mtx, iter, snap, sleepCalls>>

ShellEnqueueLock ==
    /\ Running("shell")
    /\ pc["shell"] = "enqueue_lock"
    /\ lock("shell")
    /\ Goto("shell", "enqueue")
    /\ UNCHANGED <<queueVars, lastOp, slept, processId, proc, iter, snap, sleepCalls>>

\* Line 126, then the test of line 127.
ShellEnqueue ==
    /\ Running("shell")
    /\ pc["shell"] = "enqueue"
    /\ Becomes(enqueue(Cur, proc))
    /\ slept' = StillWaiting
    /\ unlock
    /\ Goto("shell", IF shouldSleep(processId) THEN "sleep_lock" ELSE "delay")
    /\ UNCHANGED <<lastOp, processId, proc, iter, snap, sleepCalls>>

ShellSleepLock ==
    /\ Running("shell")
    /\ pc["shell"] = "sleep_lock"
    /\ lock("shell")
    /\ Goto("shell", "sleep")
    /\ UNCHANGED <<queueVars, lastOp, slept, processId, proc, iter, snap, sleepCalls>>

\* Line 128.
ShellSleep ==
    /\ Running("shell")
    /\ pc["shell"] = "sleep"
    /\ \E q \in simulateSleep(Cur, proc.id, sleepSeconds(ShellInterval)) : Becomes(q)
    /\ slept' = SleptAfterSleep(proc.id, sleepSeconds(ShellInterval))
    /\ sleepCalls' = sleepCalls \cup {<<proc.id, sleepSeconds(ShellInterval)>>}
    /\ unlock
    /\ Goto("shell", "delay")
    /\ UNCHANGED <<lastOp, processId, proc, iter, snap>>

\* Line 130.
ShellDelay ==
    /\ Running("shell")
    /\ pc["shell"] = "delay"
    /\ Goto("shell", "print_lock")
    /\ UNCHANGED <<queueVars, lastOp, slept, mtx, processId, proc, iter, snap, sleepCalls>>

\* printQueue has returned: the end of one iteration of the for loop.
ShellPrinted ==
    /\ Running("shell")
    /\ pc["shell"] = "printed"
    /\ iter' = iter + 1
    /\ snap' = [snap EXCEPT !["shell"] = NoSnap]
    /\ Goto("shell", "loop")
    /\ UNCHANGED <<queueVars, lastOp, slept, mtx, processId, proc, sleepCalls>>

\* ---- monitorProcess
\* Line 137.
MonitorDelay ==
    /\ Running("monitor")
    /\ pc["monitor"] = "delay"
    /\ Goto("monitor", "tick_lock")
    /\ UNCHANGED <<queueVars, lastOp, slept, mtx, processId, proc, iter, snap, sleepCalls>>

MonitorTickLock ==
    /\ Running("monitor")
    /\ pc["monitor"] = "tick_lock"
    /\ lock("monitor")
    /\ Goto("monitor", "tick")
    /\ UNCHANGED <<queueVars, lastOp, slept, processId, proc, iter, snap, sleepCalls>>

\* Line 138.
MonitorTick ==
    /\ Running("monitor")
    /\ pc["monitor"] = "tick"
    /\ Becomes(wakeUpProcesses(Cur))
    /\ slept' = SleptAfterTick
    /\ unlock
    /\ Goto("monitor", "print_lock")
    /\ UNCHANGED <<lastOp, processId, proc, iter, snap, sleepCalls>>

MonitorPrinted ==
    /\ Running("monitor")
    /\ pc["monitor"] = "printed"
    /\ snap' = [snap EXCEPT !["monitor"] = NoSnap]
    /\ Goto("monitor", "delay")
    /\ UNCHANGED <<queueVars, lastOp, slept, mtx, processId, proc, iter, sleepCalls>>

\* ---- printQueue, called by either agent
PrintLock(t) ==
    /\ Running(t)
    /\ pc[t] = "print_lock"
    /\ printQueue_lock(t)
    /\ snap' = [snap EXCEPT ![t] = [NoSnap EXCEPT !.known = DOMAIN procs]]
    /\ Goto(t, "print_header")
    /\ UNCHANGED <<queueVars, lastOp, slept, processId, proc, iter, sleepCalls>>

\* Line 100.
PrintHeader(t) ==
    /\ Running(t)
    /\ pc[t] = "print_header"
    /\ snap' = [snap EXCEPT ![t].header = bgCount]
    /\ Goto(t, "print_bg")
    /\ UNCHANGED <<queueVars, lastOp, slept, mtx, processId, proc, iter, sleepCalls>>

\* Lines 102-105.
PrintBg(t) ==
    /\ Running(t)
    /\ pc[t] = "print_bg"
    /\ snap' = [snap EXCEPT ![t].bg = Labels(Cur, bgProcesses)]
    /\ Goto(t, "print_fg")
    /\ UNCHANGED <<queueVars, lastOp, slept, mtx, processId, proc, iter, sleepCalls>>

\* Lines 106-110.
PrintFg(t) ==
    /\ Running(t)
    /\ pc[t] = "print_fg"
    /\ snap' = [snap EXCEPT ![t].fg = Labels(Cur, fgProcesses)]
    /\ Goto(t, "print_wq")
    /\ UNCHANGED <<queueVars, lastOp, slept, mtx, processId, proc, iter, sleepCalls>>

\* Lines 111-117.
PrintWq(t) ==
    /\ Running(t)
    /\ pc[t] = "print_wq"
    /\ snap' = [snap EXCEPT ![t].wq = WqSection(Cur)]
    /\ unlock
    /\ Goto(t, "printed")
    /\ UNCHANGED <<queueVars, lastOp, slept, processId, proc, iter, sleepCalls>>

printQueue(t) ==
    PrintLock(t) \/ PrintHeader(t) \/ PrintBg(t) \/ PrintFg(t) \/ PrintWq(t)

main == MainEnqueue \/ MainSpawn \/ MainJoinAndReturn

shellProcess ==
    \/ ShellLoop \/ ShellEnqueueLock \/ ShellEnqueue \/ ShellSleepLock \/ ShellSleep
    \/ ShellDelay \/ printQueue("shell") \/ ShellPrinted

monitorProcess ==
    \/ MonitorDelay \/ MonitorTickLock \/ MonitorTick
    \/ printQueue("monitor") \/ MonitorPrinted

NextAgents == main \/ shellProcess \/ monitorProcess

SpecAgents == Init /\ [][NextAgents]_vars

\* The threads under fair scheduling.  A thread that can step does step:
\* the operating system runs every runnable thread.  A thread blocked in
\* lock_guard's constructor gets the mutex if the mutex is free again and
\* again (strong fairness): each holder returns to a sleep_for of seconds
\* after at most two back-to-back operations, and the blocked thread is
\* woken when the mutex is released.
FairAgents ==
    /\ SpecAgents
    /\ WF_vars(main)
    /\ SF_vars(shellProcess)
    /\ SF_vars(monitorProcess)

\* ============================================================ C12
Enqueued == DOMAIN procs \ {0, 1}

ShellIds == FirstProcessId..(FirstProcessId + NumCommands - 1)

ShellDoneAsSaid ==
    /\ iter = NumCommands
    /\ Enqueued = ShellIds
    /\ processCount = 2 + NumCommands
    /\ \A p \in ShellIds :
          /\ procs[p].isForeground = (p % 2 = 0)
          /\ Cardinality({i \in 1..Len(fgProcesses) : fgProcesses[i] = p})
             + Cardinality({i \in 1..Len(bgProcesses) : bgProcesses[i] = p})
             + (IF p \in DOMAIN waitQueue THEN 1 ELSE 0) = 1
    /\ sleepCalls = {<<2, 2 * ShellInterval>>, <<5, 2 * ShellInterval>>}

\* C12: the shell never starts a seventh iteration and, fairly scheduled,
\* reaches the end of its loop whatever the monitor does; when it has, it has
\* run six iterations, the ids 2..7 are the ones enqueued since main's two,
\* each once (processCount is 8 and each id is held in exactly one place),
\* even ids are foreground and odd ids background, and simulateSleep was
\* called with 2 * interval for the ids 2 and 5 and for no other id.
ShellTerminates ==
    /\ [](iter <= NumCommands)
    /\ [](pc["shell"] = "done" => ShellDoneAsSaid)
    /\ <>(pc["shell"] = "done")

ShellTerminates_Witness ==
    /\ pc["shell"] = "done"
    /\ pc["monitor"] = "print_bg"
    /\ 2 \notin DOMAIN waitQueue
    /\ 5 \in DOMAIN waitQueue

\* ============================================================ C11
Printing(t) == pc[t] \in {"print_header", "print_bg", "print_fg", "print_wq"}

SectionIds(section) == {section[i].id : i \in 1..Len(section)}

WqIds(section) == {section[i].label.id : i \in 1..Len(section)}

\* What the print of agent t has written so far is what the queue holds now.
NothingMovedSince(t) ==
    /\ snap[t].known = DOMAIN procs
    /\ pc[t] \in {"print_bg", "print_fg", "print_wq"} => snap[t].header = bgCount
    /\ pc[t] \in {"print_fg", "print_wq"} => snap[t].bg = Labels(Cur, bgProcesses)
    /\ pc[t] = "print_wq" => snap[t].fg = Labels(Cur, fgProcesses)

\* The finished snapshot of agent t.
SnapshotConsistent(t) ==
    /\ snap[t].header = Len(snap[t].bg)
    /\ SectionIds(snap[t].bg) \cup SectionIds(snap[t].fg) \cup WqIds(snap[t].wq)
           = snap[t].known
    /\ Len(snap[t].bg) + Len(snap[t].fg) + Len(snap[t].wq) = Cardinality(snap[t].known)

\* C11: while an agent prints, the other agent is not printing and is in no
\* enqueue, sleep or tick (two snapshots never interleave, no mutator runs),
\* and every section already written still equals the queue; in the finished
\* snapshot the bgCount of the header is the number of entries in the DQ
\* section, and every process known when the print began is printed in
\* exactly one of the three sections.
PrintIsSnapshot ==
    \A t \in Agents :
        /\ Printing(t) =>
              /\ \A o \in Agents \ {t} : ~Printing(o) /\ pc[o] \notin {"enqueue", "sleep", "tick"}
              /\ NothingMovedSince(t)
        /\ pc[t] = "printed" => SnapshotConsistent(t)

\* The shell has printed all three sections, each with entries, and the
\* monitor stands at the lock_guard of wakeUpProcesses.
PrintIsSnapshot_Witness ==
    /\ pc["shell"] = "printed"
    /\ pc["monitor"] = "tick_lock"
    /\ Len(snap["shell"].bg) > 1
    /\ Len(snap["shell"].fg) > 1
    /\ Len(snap["shell"].wq) > 0

\* ============================================================ C13
\* Monitor ticks are counted from the shell's simulateSleep(2, 10): in the
\* reference run that call comes in the shell's first iteration, before the
\* monitor's first sleep_for has ended.
SleptTwo == \E c \in sleepCalls : c[1] = 2

TwoCountsDown ==
    /\ \A c \in sleepCalls : c[1] = 2 => c[2] = 2 * ShellInterval
    /\ 2 \in DOMAIN slept =>
          /\ slept[2].seconds = 2 * ShellInterval
          /\ slept[2].ticks <= 2 * ShellInterval
          /\ slept[2].ticks < 2 * ShellInterval =>
                /\ 2 \in DOMAIN waitQueue
                /\ Pos(fgProcesses, 2) = 0
                /\ procs[2].remainingTime = 2 * ShellInterval - slept[2].ticks
          /\ slept[2].ticks = 2 * ShellInterval =>
                /\ 2 \notin DOMAIN waitQueue
                /\ IsLast(fgProcesses, 2)
    /\ (SleptTwo /\ 2 \notin DOMAIN waitQueue) => Pos(fgProcesses, 2) # 0

\* C13 as stated: process 2 is slept with 10, is in wait through the first
\* 9 ticks, rejoins fg as its last element on the 10th, and that 10th tick
\* always comes: when the program has ended, process 2 is back in fg.
TwoAlwaysBack ==
    /\ TwoCountsDown
    /\ pc["main"] = "exited" => Pos(fgProcesses, 2) # 0

\* C13, amended: process 2 is slept with 10, is in wait with remainingTime
\* 10 - k after k < 10 ticks, and on the 10th tick leaves wait and is the
\* last element of fg, where it stays.  Nothing is said of the 10th tick
\* being reached: main returns when the shell has finished.
TwoBackOnTenthTick == TwoCountsDown

TwoBack_Witness ==
    /\ 2 \in DOMAIN slept
    /\ slept[2].ticks = 2 * ShellInterval
    /\ IsLast(fgProcesses, 2)
    /\ Len(fgProcesses) > 1

\* ============================================================ C20
InOperation(t) ==
    pc[t] \in {"enqueue", "sleep", "tick", "print_header", "print_bg", "print_fg", "print_wq"}

AtLock(t) == pc[t] \in {"enqueue_lock", "sleep_lock", "tick_lock", "print_lock"}

\* C20: an agent is inside enqueue, simulateSleep, wakeUpProcesses or
\* printQueue exactly while it holds the mutex, so at most one agent is
\* inside an operation, the mutex is given back when the operation returns
\* and is not held during sleep_for; while the program runs some thread can
\* always step (no deadlock); and an agent standing at a lock_guard gets
\* past it, unless the program ends first.
LockNeverBlocksForever ==
    /\ [](\A t \in Agents : InOperation(t) <=> mtx = t)
    /\ [](pc["main"] = "join" => ENABLED NextAgents)
    /\ \A t \in Agents : AtLock(t) ~> (~AtLock(t) \/ pc["main"] = "exited")

\* The shell is inside simulateSleep and the monitor is blocked at the
\* lock_guard of wakeUpProcesses.
LockNeverBlocks_Witness ==
    /\ pc["shell"] = "sleep"
    /\ mtx = "shell"
    /\ pc["monitor"] = "tick_lock"

====
